---- MODULE Spec2Model ----
(***************************************************************************)
(* Model of libs/recipes/llamacpp_android/opencl_stub.c: thirty-five       *)
(* functions named after OpenCL entry points, each declared                *)
(* `void name() {}`.  The model is the stubs together with the smallest    *)
(* environment in which their contract can be observed: callers that pass  *)
(* arguments, memory the callers can see, and the frame of a call in       *)
(* progress.                                                               *)
(***************************************************************************)
EXTENDS Naturals, Integers, Sequences, FiniteSets

\* ------------------------------------------------------------------ bounds

\* Longest argument list a caller passes.
MaxArgs == 1

\* ------------------------------------------------------------- environment

\* Two callers: a data race is a property of a pair of calls in progress.
Threads == {"t1", "t2"}

\* Caller-visible memory: one global variable of the linked program and one
\* cell reachable through a pointer argument (an output parameter such as
\* num_platforms, an info buffer, an errcode_ret or an event status).
Addr == {"glob", "out"}

\* Contents of a memory cell.
Val == {0, 1}

\* An argument is a null pointer or a pointer to the reachable cell.
ArgVal == {"NULL", "out"}

\* Argument lists of every length up to MaxArgs: the stubs are defined with
\* an empty parameter list, so a caller may pass any number of arguments.
Args == UNION {[1..n -> ArgVal] : n \in 0..MaxArgs}

\* ------------------------------------------------------------ the stubs

\* The symbols the file defines, in file order.
Symbols ==
    << "clBuildProgram",
       "clCreateBuffer",
       "clCreateCommandQueue",
       "clCreateContext",
       "clCreateImage",
       "clCreateKernel",
       "clCreateProgramWithSource",
       "clCreateSubBuffer",
       "clEnqueueBarrierWithWaitList",
       "clEnqueueCopyBuffer",
       "clEnqueueFillBuffer",
       "clEnqueueMarkerWithWaitList",
       "clEnqueueNDRangeKernel",
       "clEnqueueReadBuffer",
       "clEnqueueWriteBuffer",
       "clFinish",
       "clFlush",
       "clGetDeviceIDs",
       "clGetDeviceInfo",
       "clGetEventProfilingInfo",
       "clGetKernelInfo",
       "clGetKernelSubGroupInfo",
       "clGetKernelWorkGroupInfo",
       "clGetPlatformIDs",
       "clGetPlatformInfo",
       "clGetProgramBuildInfo",
       "clReleaseCommandQueue",
       "clReleaseContext",
       "clReleaseEvent",
       "clReleaseKernel",
       "clReleaseMemObject",
       "clReleaseProgram",
       "clSetKernelArg",
       "clWaitForEvents",
       "clGetExtensionFunctionAddressForPlatform" >>

SymbolSet == {Symbols[i] : i \in 1..Len(Symbols)}

\* What a call hands back: nothing (the functions are declared void), or a
\* value.
Void == [defined |-> FALSE, value |-> 0]

ReturnOf(v) == [defined |-> TRUE, value |-> v]

\* Faulty variants of the stub body, used to show that the properties below
\* are sensitive to what the body does.  Each is a slip a stub file of this
\* kind could plausibly contain.

\* clGetPlatformIDs reports "no platforms" through its last argument:
\*   void clGetPlatformIDs(n, p, num) { if (num) *num = 0; }
BodyWritesOutParam(f, args, m) ==
    IF f = "clGetPlatformIDs" /\ Len(args) > 0 /\ args[Len(args)] # "NULL"
    THEN [stores |-> {<<args[Len(args)], 0>>}, loads |-> {}, waits |-> {},
          ret |-> Void]
    ELSE [stores |-> {}, loads |-> {}, waits |-> {}, ret |-> Void]

\* clGetDeviceIDs answers CL_DEVICE_NOT_FOUND:
\*   int clGetDeviceIDs() { return -1; }
BodyReturnsError(f, args, m) ==
    [stores |-> {}, loads |-> {}, waits |-> {},
     ret |-> IF f = "clGetDeviceIDs" THEN ReturnOf(-1) ELSE Void]

\* clCreateContext remembers in a static flag that it was called:
\*   static int created; void clCreateContext() { created = 1; }
BodySetsGlobal(f, args, m) ==
    [stores |-> IF f = "clCreateContext" THEN {<<"glob", 1>>} ELSE {},
     loads |-> {}, waits |-> {}, ret |-> Void]

\* The first argument is validated:
\*   int clSetKernelArg(k, ...) { if (!k) return -48; return 0; }
BodyChecksArgs(f, args, m) ==
    [stores |-> {}, loads |-> {}, waits |-> {},
     ret |-> IF f = "clSetKernelArg"
             THEN (IF Len(args) = 0 \/ args[1] = "NULL"
                   THEN ReturnOf(-48) ELSE ReturnOf(0))
             ELSE Void]

\* clFinish spins until a completion flag is cleared:
\*   extern volatile int busy; void clFinish() { while (busy) ; }
BodyWaits(f, args, m) ==
    [stores |-> {}, waits |-> IF f = "clFinish" THEN {"glob"} ELSE {},
     loads |-> IF f = "clFinish" THEN {"glob"} ELSE {}, ret |-> Void]

\* Every stub toggles a global "touched" bit:
\*   static int touched; void clX() { touched ^= 1; }
BodyTogglesGlobal(f, args, m) ==
    [stores |-> {<<"glob", 1 - m["glob"]>>}, loads |-> {"glob"},
     waits |-> {}, ret |-> Void]

\* The stubs are given a status result:
\*   int clX() { return 0; }
BodyReturnsSuccess(f, args, m) ==
    [stores |-> {}, loads |-> {}, waits |-> {}, ret |-> ReturnOf(0)]

\* The body of stub f called with args in memory m.  Every one of the
\* thirty-five definitions is `void f() {}`: the braces hold no statement, so
\* the body stores nothing, loads nothing and waits for nothing, and the
\* return type is void, so it hands back no value.  Neither f, args nor m
\* is used.
Body(f, args, m) ==
    [stores |-> {}, loads |-> {}, waits |-> {}, ret |-> Void]

\* Memory m after the stores of a body have been performed.
Apply(stores, m) ==
    [a \in Addr |-> IF \E s \in stores : s[1] = a
                    THEN (CHOOSE s \in stores : s[1] = a)[2]
                    ELSE m[a]]

\* ------------------------------------------------------------------ state

VARIABLES
    mem,      \* caller-visible memory
    mem0,     \* the memory before any call was made
    pc,       \* per caller: "idle", "in" (inside a stub), "done" (returned)
    cur,      \* per caller: the stub called last and the arguments passed
    before,   \* per caller: memory when its last call was made
    after,    \* per caller: memory when its last call returned
    result    \* per caller: what its last call handed back

vars == <<mem, mem0, pc, cur, before, after, result>>

NoCall == [fn |-> "none", args |-> <<>>]

Init ==
    /\ mem \in [Addr -> Val]
    /\ mem0 = mem
    /\ pc = [t \in Threads |-> "idle"]
    /\ cur = [t \in Threads |-> NoCall]
    /\ before = [t \in Threads |-> mem]
    /\ after = [t \in Threads |-> mem]
    /\ result = [t \in Threads |-> Void]

\* Control of caller t enters stub f with some arguments on the stack.
Enter(t, f) ==
    /\ pc' = [pc EXCEPT ![t] = "in"]
    /\ \E a \in Args : cur' = [cur EXCEPT ![t] = [fn |-> f, args |-> a]]
    /\ before' = [before EXCEPT ![t] = mem]
    /\ UNCHANGED <<mem, mem0, after, result>>

\* opencl_stub.c:6
clBuildProgram(t) ==
    /\ pc[t] = "idle"
    /\ Enter(t, "clBuildProgram")

\* opencl_stub.c:7
clCreateBuffer(t) ==
    /\ pc[t] = "idle"
    /\ Enter(t, "clCreateBuffer")

\* opencl_stub.c:8
clCreateCommandQueue(t) ==
    /\ pc[t] = "idle"
    /\ Enter(t, "clCreateCommandQueue")

\* opencl_stub.c:9
clCreateContext(t) ==
    /\ pc[t] = "idle"
    /\ Enter(t, "clCreateContext")

\* opencl_stub.c:10
clCreateImage(t) ==
    /\ pc[t] = "idle"
    /\ Enter(t, "clCreateImage")

\* opencl_stub.c:11
clCreateKernel(t) ==
    /\ pc[t] = "idle"
    /\ Enter(t, "clCreateKernel")

\* opencl_stub.c:12
clCreateProgramWithSource(t) ==
    /\ pc[t] = "idle"
    /\ Enter(t, "clCreateProgramWithSource")

\* opencl_stub.c:13
clCreateSubBuffer(t) ==
    /\ pc[t] = "idle"
    /\ Enter(t, "clCreateSubBuffer")

\* opencl_stub.c:14
clEnqueueBarrierWithWaitList(t) ==
    /\ pc[t] = "idle"
    /\ Enter(t, "clEnqueueBarrierWithWaitList")

\* opencl_stub.c:15
clEnqueueCopyBuffer(t) ==
    /\ pc[t] = "idle"
    /\ Enter(t, "clEnqueueCopyBuffer")

\* opencl_stub.c:16
clEnqueueFillBuffer(t) ==
    /\ pc[t] = "idle"
    /\ Enter(t, "clEnqueueFillBuffer")

\* opencl_stub.c:17
clEnqueueMarkerWithWaitList(t) ==
    /\ pc[t] = "idle"
    /\ Enter(t, "clEnqueueMarkerWithWaitList")

\* opencl_stub.c:18
clEnqueueNDRangeKernel(t) ==
    /\ pc[t] = "idle"
    /\ Enter(t, "clEnqueueNDRangeKernel")

\* opencl_stub.c:19
clEnqueueReadBuffer(t) ==
    /\ pc[t] = "idle"
    /\ Enter(t, "clEnqueueReadBuffer")

\* opencl_stub.c:20
clEnqueueWriteBuffer(t) ==
    /\ pc[t] = "idle"
    /\ Enter(t, "clEnqueueWriteBuffer")

\* opencl_stub.c:21
clFinish(t) ==
    /\ pc[t] = "idle"
    /\ Enter(t, "clFinish")

\* opencl_stub.c:22
clFlush(t) ==
    /\ pc[t] = "idle"
    /\ Enter(t, "clFlush")

\* opencl_stub.c:23
clGetDeviceIDs(t) ==
    /\ pc[t] = "idle"
    /\ Enter(t, "clGetDeviceIDs")

\* opencl_stub.c:24
clGetDeviceInfo(t) ==
    /\ pc[t] = "idle"
    /\ Enter(t, "clGetDeviceInfo")

\* opencl_stub.c:25
clGetEventProfilingInfo(t) ==
    /\ pc[t] = "idle"
    /\ Enter(t, "clGetEventProfilingInfo")

\* opencl_stub.c:26
clGetKernelInfo(t) ==
    /\ pc[t] = "idle"
    /\ Enter(t, "clGetKernelInfo")

\* opencl_stub.c:27
clGetKernelSubGroupInfo(t) ==
    /\ pc[t] = "idle"
    /\ Enter(t, "clGetKernelSubGroupInfo")

\* opencl_stub.c:28
clGetKernelWorkGroupInfo(t) ==
    /\ pc[t] = "idle"
    /\ Enter(t, "clGetKernelWorkGroupInfo")

\* opencl_stub.c:29
clGetPlatformIDs(t) ==
    /\ pc[t] = "idle"
    /\ Enter(t, "clGetPlatformIDs")

\* opencl_stub.c:30
clGetPlatformInfo(t) ==
    /\ pc[t] = "idle"
    /\ Enter(t, "clGetPlatformInfo")

\* opencl_stub.c:31
clGetProgramBuildInfo(t) ==
    /\ pc[t] = "idle"
    /\ Enter(t, "clGetProgramBuildInfo")

\* opencl_stub.c:32
clReleaseCommandQueue(t) ==
    /\ pc[t] = "idle"
    /\ Enter(t, "clReleaseCommandQueue")

\* opencl_stub.c:33
clReleaseContext(t) ==
    /\ pc[t] = "idle"
    /\ Enter(t, "clReleaseContext")

\* opencl_stub.c:34
clReleaseEvent(t) ==
    /\ pc[t] = "idle"
    /\ Enter(t, "clReleaseEvent")

\* opencl_stub.c:35
clReleaseKernel(t) ==
    /\ pc[t] = "idle"
    /\ Enter(t, "clReleaseKernel")

\* opencl_stub.c:36
clReleaseMemObject(t) ==
    /\ pc[t] = "idle"
    /\ Enter(t, "clReleaseMemObject")

\* opencl_stub.c:37
clReleaseProgram(t) ==
    /\ pc[t] = "idle"
    /\ Enter(t, "clReleaseProgram")

\* opencl_stub.c:38
clSetKernelArg(t) ==
    /\ pc[t] = "idle"
    /\ Enter(t, "clSetKernelArg")

\* opencl_stub.c:39
clWaitForEvents(t) ==
    /\ pc[t] = "idle"
    /\ Enter(t, "clWaitForEvents")

\* opencl_stub.c:40
clGetExtensionFunctionAddressForPlatform(t) ==
    /\ pc[t] = "idle"
    /\ Enter(t, "clGetExtensionFunctionAddressForPlatform")

\* The addresses the call in progress of caller t writes and reads.
Writes(t) == {s[1] : s \in Body(cur[t].fn, cur[t].args, mem).stores}

Reads(t) == Body(cur[t].fn, cur[t].args, mem).loads

\* The call of caller t may leave its body: nothing it waits on is pending.
MayReturn(t) ==
    \A a \in Body(cur[t].fn, cur[t].args, mem).waits : mem[a] = 0

\* The body of the stub caller t is in runs to its closing brace and control
\* returns to the caller.
Return(t) ==
    /\ pc[t] = "in"
    /\ MayReturn(t)
    /\ mem' = Apply(Body(cur[t].fn, cur[t].args, mem).stores, mem)
    /\ result' = [result EXCEPT ![t] = Body(cur[t].fn, cur[t].args, mem).ret]
    /\ after' = [after EXCEPT ![t] = mem']
    /\ pc' = [pc EXCEPT ![t] = "done"]
    /\ UNCHANGED <<mem0, cur, before>>

\* Caller t has looked at what its last call left behind and is ready to make
\* another call.
Resume(t) ==
    /\ pc[t] = "done"
    /\ pc' = [pc EXCEPT ![t] = "idle"]
    /\ cur' = [cur EXCEPT ![t] = NoCall]
    /\ UNCHANGED <<mem, mem0, before, after, result>>

Next ==
    \E t \in Threads :
        \/ clBuildProgram(t)
        \/ clCreateBuffer(t)
        \/ clCreateCommandQueue(t)
        \/ clCreateContext(t)
        \/ clCreateImage(t)
        \/ clCreateKernel(t)
        \/ clCreateProgramWithSource(t)
        \/ clCreateSubBuffer(t)
        \/ clEnqueueBarrierWithWaitList(t)
        \/ clEnqueueCopyBuffer(t)
        \/ clEnqueueFillBuffer(t)
        \/ clEnqueueMarkerWithWaitList(t)
        \/ clEnqueueNDRangeKernel(t)
        \/ clEnqueueReadBuffer(t)
        \/ clEnqueueWriteBuffer(t)
        \/ clFinish(t)
        \/ clFlush(t)
        \/ clGetDeviceIDs(t)
        \/ clGetDeviceInfo(t)
        \/ clGetEventProfilingInfo(t)
        \/ clGetKernelInfo(t)
        \/ clGetKernelSubGroupInfo(t)
        \/ clGetKernelWorkGroupInfo(t)
        \/ clGetPlatformIDs(t)
        \/ clGetPlatformInfo(t)
        \/ clGetProgramBuildInfo(t)
        \/ clReleaseCommandQueue(t)
        \/ clReleaseContext(t)
        \/ clReleaseEvent(t)
        \/ clReleaseKernel(t)
        \/ clReleaseMemObject(t)
        \/ clReleaseProgram(t)
        \/ clSetKernelArg(t)
        \/ clWaitForEvents(t)
        \/ clGetExtensionFunctionAddressForPlatform(t)        \/ Return(t)
        \/ Resume(t)

Spec == Init /\ [][Next]_vars

\* A call in progress keeps running: the thread of its caller is scheduled.
FairSpec == Spec /\ \A t \in Threads : WF_vars(Return(t))

\* ------------------------------------------------------------- properties

\* The entry points whose OpenCL counterparts block.
Blocking ==
    {"clFinish", "clFlush", "clWaitForEvents",
     "clEnqueueBarrierWithWaitList", "clEnqueueMarkerWithWaitList"}

\* The entry points whose OpenCL counterparts return a handle or a pointer
\* and take an errcode_ret output; the others return a status.
HandleReturning ==
    {"clCreateContext", "clCreateCommandQueue", "clCreateBuffer",
     "clCreateSubBuffer", "clCreateImage", "clCreateKernel",
     "clCreateProgramWithSource",
     "clGetExtensionFunctionAddressForPlatform"}

StatusReturning == SymbolSet \ HandleReturning

\* Two calls in progress conflict: one writes a cell the other reads or
\* writes.
Race ==
    \E t1 \in Threads : \E t2 \in Threads \ {t1} :
        /\ pc[t1] = "in"
        /\ pc[t2] = "in"
        /\ Writes(t1) \cap (Reads(t2) \cup Writes(t2)) # {}

\* C1: a call to any stub, with any arguments, returns without effect: the
\* global and the cell reachable through a pointer argument hold after the
\* call what they held before it.
C1_CallHasNoEffect ==
    \A t \in Threads : pc[t] = "done" => after[t] = before[t]

\* C1 case: clGetPlatformIDs was handed a pointer to a non-zero output cell
\* and has returned.
C1_Witness ==
    \E t \in Threads :
        /\ pc[t] = "done"
        /\ cur[t].fn = "clGetPlatformIDs"
        /\ cur[t].args = <<"out">>
        /\ before[t]["out"] = 1

\* C2: no call ends in an error: a call that has returned has not handed its
\* caller a failure status (a defined result other than 0).
C2_NoErrorOutcome ==
    \A t \in Threads :
        pc[t] = "done" => ~(result[t].defined /\ result[t].value # 0)

\* C2 case: clGetDeviceIDs, which fails in OpenCL when no device is found,
\* was called with a null pointer and has returned.
C2_Witness ==
    \E t \in Threads :
        /\ pc[t] = "done"
        /\ cur[t].fn = "clGetDeviceIDs"
        /\ cur[t].args = <<"NULL">>

\* C4: the stubs share no state: a call in progress reads and writes no
\* cell, so no two concurrent calls race, and once no call is in progress
\* the memory is the initial memory.
C4_NoSharedState ==
    /\ \A t \in Threads : pc[t] = "in" => Reads(t) \cup Writes(t) = {}
    /\ ~Race
    /\ (\A t \in Threads : pc[t] # "in") => mem = mem0

\* C4 case: both callers are inside the same stub at the same time.
C4_Witness ==
    /\ pc["t1"] = "in"
    /\ pc["t2"] = "in"
    /\ cur["t1"].fn = "clCreateContext"
    /\ cur["t2"].fn = "clCreateContext"

\* C5: the body ignores its arguments: two calls to the same stub made in
\* the same memory, whatever arguments each passed, leave the same memory
\* and hand back the same result.
C5_ArgumentsIgnored ==
    \A t1 \in Threads : \A t2 \in Threads :
        (/\ pc[t1] = "done"
         /\ pc[t2] = "done"
         /\ cur[t1].fn = cur[t2].fn
         /\ before[t1] = before[t2])
        => (after[t1] = after[t2] /\ result[t1] = result[t2])

\* C5 case: the same stub has returned from a call without arguments and
\* from a call with a pointer argument.
C5_Witness ==
    /\ pc["t1"] = "done"
    /\ pc["t2"] = "done"
    /\ cur["t1"].fn = "clSetKernelArg"
    /\ cur["t2"].fn = "clSetKernelArg"
    /\ cur["t1"].args = <<>>
    /\ cur["t2"].args = <<"out">>

\* C6: every call terminates: no caller stays inside a stub for ever, the
\* stubs named after blocking entry points included.
C6_EveryCallReturns ==
    \A t \in Threads : []<>(pc[t] # "in")

\* C6 case: a stub named after a blocking entry point has returned while the
\* global cell, a completion flag its counterpart would wait on, is set.
C6_Witness ==
    \E t \in Threads :
        /\ pc[t] = "done"
        /\ cur[t].fn \in Blocking
        /\ mem["glob"] = 1

\* C7: whatever calls have been made so far, in whatever order and however
\* often, the memory is the one of making no call at all.
C7_AnySequenceIsNoCall ==
    mem = mem0

\* C7 case: a release and a create have both returned although no object
\* was ever created or could be released, and the memory is untouched.
C7_Witness ==
    /\ pc["t1"] = "done"
    /\ cur["t1"].fn = "clReleaseMemObject"
    /\ pc["t2"] = "done"
    /\ cur["t2"].fn = "clCreateBuffer"
    /\ mem = mem0

\* C8: no call yields a result defined by the stub: no status, no handle, and
\* the stubs named after handle-returning entry points leave the cell an
\* errcode_ret argument points to as it was.
C8_NoDefinedResult ==
    \A t \in Threads :
        pc[t] = "done" =>
            /\ ~result[t].defined
            /\ cur[t].fn \in HandleReturning => after[t] = before[t]

\* C8 case: a status-returning and a handle-returning entry point have both
\* returned, the latter from a call that passed an errcode_ret pointer.
C8_Witness ==
    /\ pc["t1"] = "done"
    /\ cur["t1"].fn = "clGetPlatformIDs"
    /\ cur["t1"].fn \in StatusReturning
    /\ pc["t2"] = "done"
    /\ cur["t2"].fn = "clCreateContext"
    /\ cur["t2"].args = <<"out">>

====
